---- MODULE Spec2Model ----
(***************************************************************************)
(* A model of package plist (src/plist.go): the tag scanner next, the      *)
(* document decoder Unmarshal, the recursive value decoder unmarshalValue  *)
(* and the subtree skipper skipValue.                                      *)
(*                                                                         *)
(* A []byte is a sequence of one-character strings, so that the scanner    *)
(* works on bytes exactly as bytes.IndexByte does.  A nil []byte and an    *)
(* empty one are both << >>: the code only ever tests them with len() or   *)
(* against a tag that, when found, has at least the two bytes "<" ">".     *)
(***************************************************************************)
EXTENDS Integers, Sequences, FiniteSets, TLC

(***************************************************************************)
(* Bounds of the input space.                                              *)
(***************************************************************************)
MaxPairs == 2
MaxElems == 2
MaxBefore == 2
MaxAfter == 2

(***************************************************************************)
(* Byte strings the code compares against.                                 *)
(***************************************************************************)
sXml        == <<"<","?","x","m","l">>
sDoctype    == <<"<","!","D","O","C","T","Y","P","E">>
sPlist      == <<"<","p","l","i","s","t">>
sPlistEnd   == <<"<","/","p","l","i","s","t",">">>
sDict       == <<"<","d","i","c","t",">">>
sDictEnd    == <<"<","/","d","i","c","t",">">>
sKey        == <<"<","k","e","y",">">>
sKeyEnd     == <<"<","/","k","e","y",">">>
sArray      == <<"<","a","r","r","a","y",">">>
sArrayEnd   == <<"<","/","a","r","r","a","y",">">>
sString     == <<"<","s","t","r","i","n","g",">">>
sStringEnd  == <<"<","/","s","t","r","i","n","g",">">>
sInteger    == <<"<","i","n","t","e","g","e","r",">">>
sIntegerEnd == <<"<","/","i","n","t","e","g","e","r",">">>
sReal       == <<"<","r","e","a","l",">">>
sRealEnd    == <<"<","/","r","e","a","l",">">>
sDate       == <<"<","d","a","t","e",">">>
sDateEnd    == <<"<","/","d","a","t","e",">">>
sData       == <<"<","d","a","t","a",">">>
sDataEnd    == <<"<","/","d","a","t","a",">">>
sTrue       == <<"<","t","r","u","e","/",">">>
sFalse      == <<"<","f","a","l","s","e","/",">">>

(***************************************************************************)
(* bytes.IndexByte, 1-based, 0 when the byte does not occur; and           *)
(* bytes.HasPrefix.                                                        *)
(***************************************************************************)
IndexByte(data, c) ==
    IF \E i \in 1..Len(data) : data[i] = c
    THEN CHOOSE i \in 1..Len(data) : data[i] = c /\ \A k \in 1..(i-1) : data[k] # c
    ELSE 0

HasPrefix(s, prefix) ==
    /\ Len(s) >= Len(prefix)
    /\ \A i \in 1..Len(prefix) : s[i] = prefix[i]

(***************************************************************************)
(* next: the text before the next <...> token, the token, and what follows *)
(* it.  Without a complete token: the whole input as text and no token.    *)
(***************************************************************************)
next(data) ==
    LET i == IndexByte(data, "<") IN
    IF i = 0 THEN [skip |-> data, tag |-> << >>, rest |-> << >>]
    ELSE LET j == IndexByte(SubSeq(data, i, Len(data)), ">") IN
         IF j = 0 THEN [skip |-> data, tag |-> << >>, rest |-> << >>]
         ELSE [skip |-> SubSeq(data, 1, i - 1),
               tag  |-> SubSeq(data, i, i + j - 1),
               rest |-> SubSeq(data, i + j, Len(data))]

(***************************************************************************)
(* strconv.Atoi on the bodies of the model: an optional sign and at least  *)
(* one decimal digit, nothing else.  No body of the model leaves the range *)
(* of int.                                                                 *)
(***************************************************************************)
Digits == <<"0","1","2","3","4","5","6","7","8","9">>
IsDigit(c) == \E d \in 1..10 : Digits[d] = c
DigitVal(c) == (CHOOSE d \in 1..10 : Digits[d] = c) - 1

RECURSIVE DecVal(_)
DecVal(s) == IF s = << >> THEN 0
             ELSE 10 * DecVal(SubSeq(s, 1, Len(s) - 1)) + DigitVal(s[Len(s)])

Unsigned(s) == IF s # << >> /\ s[1] \in {"+", "-"} THEN Tail(s) ELSE s
IsDecimal(s) == /\ Unsigned(s) # << >>
                /\ \A i \in 1..Len(Unsigned(s)) : IsDigit(Unsigned(s)[i])
SignedVal(s) == IF s[1] = "-" THEN 0 - DecVal(Unsigned(s)) ELSE DecVal(Unsigned(s))

Atoi(s) == IF IsDecimal(s) THEN [ok |-> TRUE, val |-> SignedVal(s)]
           ELSE [ok |-> FALSE, val |-> 0]

(***************************************************************************)
(* strconv.ParseFloat(s, bits) on the bodies of the model, which are       *)
(* integer-valued decimals below 2^31: a float64 holds each of them        *)
(* exactly, a float32 holds the nearest value with a 24-bit mantissa, ties *)
(* to even.  The result is a float64 for either bitSize.                   *)
(***************************************************************************)
Mantissa32 == 2^24

RECURSIVE Ulp32(_)
Ulp32(n) == IF n < Mantissa32 THEN 1 ELSE 2 * Ulp32(n \div 2)

RoundAbs32(n) ==
    LET u == Ulp32(n)
        q == n \div u
        r == n % u
    IN IF 2 * r > u \/ (2 * r = u /\ q % 2 = 1) THEN (q + 1) * u ELSE q * u

Round32(n) == IF n < 0 THEN 0 - RoundAbs32(0 - n) ELSE RoundAbs32(n)

ParseFloat(s, bits) ==
    IF ~IsDecimal(s) THEN [ok |-> FALSE, val |-> 0]
    ELSE [ok |-> TRUE, val |-> IF bits = 32 THEN Round32(SignedVal(s)) ELSE SignedVal(s)]

(***************************************************************************)
(* time.Parse(time.RFC3339, s) on the bodies of the model, which are of    *)
(* the form YYYY-MM-DDTHH:MM:SSZ or not timestamps at all: the fields and  *)
(* their ranges are checked, and the value is the instant's fields.        *)
(***************************************************************************)
IsLeap(y) == (y % 4 = 0 /\ y % 100 # 0) \/ y % 400 = 0
DaysIn(y, m) == IF m = 2 THEN (IF IsLeap(y) THEN 29 ELSE 28)
                ELSE IF m \in {4, 6, 9, 11} THEN 30 ELSE 31

DateShape(s) ==
    /\ Len(s) = 20
    /\ \A i \in {1,2,3,4,6,7,9,10,12,13,15,16,18,19} : IsDigit(s[i])
    /\ s[5] = "-" /\ s[8] = "-" /\ s[11] = "T"
    /\ s[14] = ":" /\ s[17] = ":" /\ s[20] = "Z"

DateFields(s) == << DecVal(SubSeq(s, 1, 4)), DecVal(SubSeq(s, 6, 7)),
                    DecVal(SubSeq(s, 9, 10)), DecVal(SubSeq(s, 12, 13)),
                    DecVal(SubSeq(s, 15, 16)), DecVal(SubSeq(s, 18, 19)) >>

ParseRFC3339(s) ==
    IF ~DateShape(s) THEN [ok |-> FALSE, val |-> << >>]
    ELSE LET f == DateFields(s) IN
         IF /\ f[2] \in 1..12
            /\ f[3] \in 1..DaysIn(f[1], f[2])
            /\ f[4] < 24 /\ f[5] < 60 /\ f[6] < 60
         THEN [ok |-> TRUE, val |-> f]
         ELSE [ok |-> FALSE, val |-> << >>]

(***************************************************************************)
(* base64.StdEncoding.DecodeString: groups of four characters of the       *)
(* standard alphabet, the last group padded with "=".                      *)
(***************************************************************************)
B64 == <<"A","B","C","D","E","F","G","H","I","J","K","L","M","N","O","P",
         "Q","R","S","T","U","V","W","X","Y","Z","a","b","c","d","e","f",
         "g","h","i","j","k","l","m","n","o","p","q","r","s","t","u","v",
         "w","x","y","z","0","1","2","3","4","5","6","7","8","9","+","/">>
IsB64(c) == \E d \in 1..64 : B64[d] = c
B64Val(c) == (CHOOSE d \in 1..64 : B64[d] = c) - 1

B64GroupOk(g, last) ==
    /\ IsB64(g[1]) /\ IsB64(g[2])
    /\ \/ IsB64(g[3]) /\ IsB64(g[4])
       \/ last /\ IsB64(g[3]) /\ g[4] = "="
       \/ last /\ g[3] = "=" /\ g[4] = "="

B64Group(g) ==
    LET a == B64Val(g[1])
        b == B64Val(g[2])
        c == IF g[3] = "=" THEN 0 ELSE B64Val(g[3])
        d == IF g[4] = "=" THEN 0 ELSE B64Val(g[4])
        n == ((a * 64 + b) * 64 + c) * 64 + d
        all == << n \div 65536, (n \div 256) % 256, n % 256 >>
    IN IF g[3] = "=" THEN SubSeq(all, 1, 1)
       ELSE IF g[4] = "=" THEN SubSeq(all, 1, 2) ELSE all

RECURSIVE B64Bytes(_)
B64Bytes(s) == IF s = << >> THEN << >>
               ELSE B64Group(SubSeq(s, 1, 4)) \o B64Bytes(SubSeq(s, 5, Len(s)))

DecodeString(s) ==
    IF /\ Len(s) % 4 = 0
       /\ \A k \in 0..((Len(s) \div 4) - 1) :
             B64GroupOk(SubSeq(s, 4 * k + 1, 4 * k + 4), 4 * k + 4 = Len(s))
    THEN [ok |-> TRUE, val |-> B64Bytes(s)]
    ELSE [ok |-> FALSE, val |-> << >>]

(***************************************************************************)
(* Destination types.  A type is known by its Go name; Types gives its     *)
(* reflect.Kind, its element type (slices and pointers) and its fields     *)
(* (structs): declared name, the value of the `plist` key of the field tag *)
(* (empty when the field has none, as reflect.StructTag.Get returns), the  *)
(* field's type, and whether the field is exported.                        *)
(***************************************************************************)
nType == <<"T","y","p","e">>
nText == <<"T","e","x","t">>
kType == <<"t","y","p","e">>
kText == <<"t","e","x","t">>
kDOB == <<"D","O","B">>
kName == <<"N","a","m","e">>
kAssassinated == <<"A","s","s","a","s","s","i","n","a","t","e","d">>
kScores == <<"S","c","o","r","e","s">>
kLincoln == <<"L","i","n","c","o","l","n">>
kWashington == <<"W","a","s","h","i","n","g","t","o","n">>

NoFields == << >>
Field(name, tag, type, exported) ==
    [Name |-> name, Tag |-> tag, Type |-> type, Exported |-> exported]

Basic(kind) == [kind |-> kind, elem |-> "", fields |-> NoFields]
SliceOf(elem) == [kind |-> "slice", elem |-> elem, fields |-> NoFields]
PtrTo(elem) == [kind |-> "ptr", elem |-> elem, fields |-> NoFields]
Struct(fields) == [kind |-> "struct", elem |-> "", fields |-> fields]

Pointers == { <<"*time.Location", "time.Location">>, <<"*Exclude2", "Exclude2">>,
              <<"*string", "string">>, <<"*int", "int">>, <<"*bool", "bool">>,
              <<"*float32", "float32">>, <<"*float64", "float64">>,
              <<"*interface{}", "interface{}">>, <<"*time.Time", "time.Time">>,
              <<"*[]uint8", "[]uint8">>, <<"*[]string", "[]string">>,
              <<"*[]interface{}", "[]interface{}">>,
              <<"*[]Exclude2", "[]Exclude2">>, <<"*[]*Exclude2", "[]*Exclude2">>,
              <<"**Exclude2", "*Exclude2">>, <<"*President", "President">>,
              <<"*PresTest", "PresTest">>, <<"*Shadow", "Shadow">>,
              <<"*struct{}", "struct{}">> }

TypeNames == {"string", "int", "bool", "float32", "float64", "interface{}",
              "uint8", "uint64", "int64", "time.Time", "time.Location",
              "[]uint8", "[]string", "[]interface{}", "[]Exclude2",
              "[]*Exclude2", "Exclude2", "President", "PresTest", "Shadow",
              "struct{}"} \cup {p[1] : p \in Pointers}

Types == [t \in TypeNames |->
    CASE t = "interface{}"    -> Basic("interface")
      [] t = "[]uint8"        -> SliceOf("uint8")
      [] t = "[]string"       -> SliceOf("string")
      [] t = "[]interface{}"  -> SliceOf("interface{}")
      [] t = "[]Exclude2"     -> SliceOf("Exclude2")
      [] t = "[]*Exclude2"    -> SliceOf("*Exclude2")
      [] \E p \in Pointers : p[1] = t ->
            PtrTo((CHOOSE p \in Pointers : p[1] = t)[2])
      [] t = "time.Location"  -> Struct(NoFields)
      [] t = "time.Time"      ->
            Struct(<< Field(<<"w","a","l","l">>, << >>, "uint64", FALSE),
                      Field(<<"e","x","t">>, << >>, "int64", FALSE),
                      Field(<<"l","o","c">>, << >>, "*time.Location", FALSE) >>)
      [] t = "struct{}"       -> Struct(NoFields)
      [] t = "Exclude2"       ->
            Struct(<< Field(nType, kType, "int", TRUE),
                      Field(nText, kText, "string", TRUE) >>)
      [] t = "President"      ->
            Struct(<< Field(kDOB, << >>, "time.Time", TRUE),
                      Field(kName, << >>, "string", TRUE),
                      Field(kAssassinated, << >>, "bool", TRUE),
                      Field(kScores, << >>, "[]interface{}", TRUE) >>)
      [] t = "PresTest"       ->
            Struct(<< Field(kLincoln, << >>, "President", TRUE),
                      Field(kWashington, << >>, "President", TRUE) >>)
      [] t = "Shadow"         ->
            Struct(<< Field(<<"X">>, kName, "[]interface{}", TRUE),
                      Field(kName, kType, "string", TRUE),
                      Field(<<"N">>, << >>, "int", TRUE) >>)
      [] OTHER                -> Basic(t)]

Kind(t) == Types[t].kind
Elem(t) == Types[t].elem
NumField(t) == Len(Types[t].fields)

(***************************************************************************)
(* Values.  Every value carries its dynamic type and one shape of record:  *)
(* str for a string, num for a number or a bool (0, 1), bytes for the      *)
(* instant of a time.Time, items for the elements of a slice, the fields of *)
(* a struct, and the content of an interface or pointer (none when nil).   *)
(* A []uint8 made by the decoder keeps its bytes as uint8 items.           *)
(***************************************************************************)
Val(t, str, num, bytes, items) ==
    [type |-> t, str |-> str, num |-> num, bytes |-> bytes, items |-> items]

RECURSIVE Zero(_)
Zero(t) == IF Kind(t) = "struct"
           THEN Val(t, << >>, 0, << >>, [i \in 1..NumField(t) |-> Zero(Types[t].fields[i].Type)])
           ELSE Val(t, << >>, 0, << >>, << >>)

StringVal(s) == Val("string", s, 0, << >>, << >>)
IntVal(n) == Val("int", << >>, n, << >>, << >>)
Float64Val(n) == Val("float64", << >>, n, << >>, << >>)
BoolVal(b) == Val("bool", << >>, IF b THEN 1 ELSE 0, << >>, << >>)
TimeVal(f) == [Zero("time.Time") EXCEPT !.bytes = f]
BytesVal(bs) == Val("[]uint8", << >>, 0, << >>,
                    [i \in 1..Len(bs) |-> Val("uint8", << >>, bs[i], << >>, << >>)])

IsNil(v) == v.items = << >>

(***************************************************************************)
(* reflect.Value.Set(x): x must be assignable to the type of v, which it   *)
(* is when the types are identical or v is an interface{}, and v must be   *)
(* settable; otherwise Set panics.  An interface{} boxes what it is given. *)
(***************************************************************************)
AssignableTo(xt, vt) == xt = vt \/ Kind(vt) = "interface"

CanSet(v, x, ro) == ~ro /\ AssignableTo(x.type, v.type)

Stored(v, x) == IF Kind(v.type) = "interface"
                THEN Val(v.type, << >>, 0, << >>, << x >>)
                ELSE x

(***************************************************************************)
(* What a call of unmarshalValue or skipValue leaves behind: the rest of   *)
(* the input it returns, its error ("" for nil), whether it panicked       *)
(* instead of returning, and the destination as it then stands.            *)
(***************************************************************************)
Return(rest, v) == [rest |-> rest, err |-> "", panic |-> FALSE, v |-> v]
Errorf(msg, v)  == [rest |-> << >>, err |-> msg, panic |-> FALSE, v |-> v]
Panic(v)        == [rest |-> << >>, err |-> "", panic |-> TRUE, v |-> v]

Set(data, v, x, ro) == IF CanSet(v, x, ro) THEN Return(data, Stored(v, x)) ELSE Panic(v)

(***************************************************************************)
(* skipValue: count opening tokens up and closing tokens down until the    *)
(* count is back at zero.  A token is closing when its second byte is "/". *)
(***************************************************************************)
RECURSIVE skipLoop(_, _)
skipLoop(data, n) ==
    LET t == next(data) IN
    IF Len(t.tag) = 0 THEN [rest |-> << >>, err |-> "unexpected eof"]
    ELSE IF t.tag[2] = "/"
         THEN IF n = 0 THEN [rest |-> << >>, err |-> "unexpected closing tag"]
              ELSE IF n - 1 = 0 THEN [rest |-> t.rest, err |-> ""]
              ELSE skipLoop(t.rest, n - 1)
         ELSE skipLoop(t.rest, n + 1)

skipValue(data) == skipLoop(data, 0)

(***************************************************************************)
(* The field a <key> binds to: the first whose name or whose plist tag is  *)
(* the key text; 0 when the loop over the fields runs out.                 *)
(***************************************************************************)
FieldMatches(f, name) == f.Name = name \/ f.Tag = name

FieldIndex(t, name) ==
    LET fs == Types[t].fields IN
    IF \E i \in 1..Len(fs) : FieldMatches(fs[i], name)
    THEN CHOOSE i \in 1..Len(fs) :
            FieldMatches(fs[i], name) /\ \A k \in 1..(i-1) : ~FieldMatches(fs[k], name)
    ELSE 0

(***************************************************************************)
(* The scalar cases of unmarshalValue: a body, the closing tag, the        *)
(* conversion, then Set.                                                   *)
(***************************************************************************)
Body(data, v, etagWant, eof, expected) ==
    LET t == next(data) IN
    IF Len(t.tag) = 0 THEN [ok |-> FALSE, out |-> Errorf(eof, v), body |-> << >>, rest |-> << >>]
    ELSE IF t.tag # etagWant
         THEN [ok |-> FALSE, out |-> Errorf(expected, v), body |-> << >>, rest |-> << >>]
         ELSE [ok |-> TRUE, out |-> Return(t.rest, v), body |-> t.skip, rest |-> t.rest]

caseString(data, v, ro) ==
    LET b == Body(data, v, sStringEnd, "eof inside <string>", "expected </string>") IN
    IF ~b.ok THEN b.out ELSE Set(b.rest, v, StringVal(b.body), ro)

caseInteger(data, v, ro) ==
    LET b == Body(data, v, sIntegerEnd, "eof inside <integer>", "expected </integer>") IN
    IF ~b.ok THEN b.out
    ELSE LET i == Atoi(b.body) IN
         IF ~i.ok THEN Errorf("non-integer in <integer> tag", v)
         ELSE Set(b.rest, v, IntVal(i.val), ro)

caseReal(data, v, ro) ==
    LET bits == IF Kind(v.type) = "float32" THEN 32 ELSE 64
        b == Body(data, v, sRealEnd, "eof inside <real>", "expected </real>")
    IN IF ~b.ok THEN b.out
       ELSE LET f == ParseFloat(b.body, bits) IN
            IF ~f.ok THEN Errorf("non-float in <real> tag", v)
            ELSE Set(b.rest, v, Float64Val(f.val), ro)

caseDate(data, v, ro) ==
    LET b == Body(data, v, sDateEnd, "eof inside <date>", "expected </date>") IN
    IF ~b.ok THEN b.out
    ELSE LET t == ParseRFC3339(b.body) IN
         IF ~t.ok THEN Errorf("non-date in <date> tag", v)
         ELSE Set(b.rest, v, TimeVal(t.val), ro)

caseData(data, v, ro) ==
    LET b == Body(data, v, sDataEnd, "eof inside <data>", "expected </data>") IN
    IF ~b.ok THEN b.out
    ELSE LET d == DecodeString(b.body) IN
         IF ~d.ok THEN Errorf("non-base64 in <data> tag", v)
         ELSE Set(b.rest, v, BytesVal(d.val), ro)

(***************************************************************************)
(* unmarshalValue(data, v): decode the one value that starts at the next   *)
(* token into v.  ro says that v was reached through an unexported field,  *)
(* which makes every Set on it panic.  The loop of the <dict> case is      *)
(* dictLoop, the loop of the <array> case is arrayLoop, the switch is      *)
(* switchTag; each is cut at the calls it makes, the result of a call      *)
(* being the first argument of the part that goes on from it.              *)
(***************************************************************************)
RECURSIVE unmarshalValue(_, _, _)
RECURSIVE dictLoop(_, _, _)
RECURSIVE arrayLoop(_, _, _)

WithField(v, i, fv) == [v EXCEPT !.items[i] = fv]

(* Lines 99-103: r is what decoding the value into field i returned. *)
dictField(r, v, i, ro) ==
    IF r.panic \/ r.err # "" THEN [r EXCEPT !.v = WithField(v, i, r.v)]
    ELSE dictLoop(r.rest, WithField(v, i, r.v), ro)

(* Lines 106-109: s is what skipping the value returned. *)
dictSkip(s, v, ro) ==
    IF s.err # "" THEN Errorf(s.err, v) ELSE dictLoop(s.rest, v, ro)

(* Lines 96-109: i is the field the key binds, 0 for none. *)
dictValue(data, v, i, ro) ==
    IF i # 0
    THEN dictField(unmarshalValue(data, v.items[i], ro \/ ~Types[v.type].fields[i].Exported),
                   v, i, ro)
    ELSE dictSkip(skipValue(data), v, ro)

(* Lines 87-94: e is the scan after <key>, its text the name. *)
dictName(e, v, ro) ==
    IF Len(e.tag) = 0 THEN Errorf("eof inside <dict>", v)
    ELSE IF e.tag # sKeyEnd THEN Errorf("unexpected tag inside <dict>", v)
    ELSE dictValue(e.rest, v, FieldIndex(v.type, e.skip), ro)

(* Lines 76-85: k is the scan at the top of the loop. *)
dictKey(k, v, ro) ==
    IF Len(k.tag) = 0 THEN Errorf("eof inside <dict>", v)
    ELSE IF k.tag = sDictEnd THEN Return(k.rest, v)
    ELSE IF k.tag # sKey THEN Errorf("unexpected tag inside <dict>", v)
    ELSE dictName(next(k.rest), v, ro)

dictLoop(data, v, ro) == dictKey(next(data), v, ro)

(* arrayElem setting the slice to the new element alone. *)
arrayElemOverwrite(r, v, ro) ==
    IF r.panic \/ r.err # "" THEN [r EXCEPT !.v = v]
    ELSE IF ro THEN Panic(v)
    ELSE arrayLoop(r.rest, [v EXCEPT !.items = << r.v >>], ro)

(* arrayElem putting the new element in front. *)
arrayElemPrepend(r, v, ro) ==
    IF r.panic \/ r.err # "" THEN [r EXCEPT !.v = v]
    ELSE IF ro THEN Panic(v)
    ELSE arrayLoop(r.rest, [v EXCEPT !.items = << r.v >> \o v.items], ro)

(* Lines 128-132: r is what decoding the value into the fresh element     *)
(* returned; the element is appended.                                      *)
arrayElem(r, v, ro) ==
    IF r.panic \/ r.err # "" THEN [r EXCEPT !.v = v]
    ELSE IF ro THEN Panic(v)
    ELSE arrayLoop(r.rest, [v EXCEPT !.items = Append(v.items, r.v)], ro)

(* Lines 119-128: t is the peek at the top of the loop; the element is     *)
(* decoded from data, the peeked token included.                           *)
arrayPeek(t, data, v, ro) ==
    IF Len(t.tag) = 0 THEN Errorf("eof inside <array>", v)
    ELSE IF t.tag = sArrayEnd THEN Return(t.rest, v)
    ELSE arrayElem(unmarshalValue(data, Zero(Elem(v.type)), FALSE), v, ro)

arrayLoop(data, v, ro) == arrayPeek(next(data), data, v, ro)

(* switchTag letting a <dict> through to an interface{}. *)
switchTagDynamic(tag, data, v, ro) ==
    CASE tag = sDict ->
            IF Kind(v.type) \notin {"struct", "interface"}
            THEN Errorf("cannot unmarshal <dict> into non-struct", v)
            ELSE dictLoop(data, v, ro)
      [] tag = sArray ->
            IF Kind(v.type) # "slice"
            THEN Errorf("cannot unmarshal <array> into non-slice", v)
            ELSE arrayLoop(data, v, ro)
      [] tag = sString  -> caseString(data, v, ro)
      [] tag = sInteger -> caseInteger(data, v, ro)
      [] tag = sReal    -> caseReal(data, v, ro)
      [] tag = sDate    -> caseDate(data, v, ro)
      [] tag = sData    -> caseData(data, v, ro)
      [] tag = sTrue    -> Set(data, v, BoolVal(TRUE), ro)
      [] tag = sFalse   -> Set(data, v, BoolVal(FALSE), ro)
      [] OTHER          -> Errorf("unexpected tag", v)

switchTag(tag, data, v, ro) ==
    CASE tag = sDict ->
            IF Kind(v.type) # "struct"
            THEN Errorf("cannot unmarshal <dict> into non-struct", v)
            ELSE dictLoop(data, v, ro)
      [] tag = sArray ->
            IF Kind(v.type) # "slice"
            THEN Errorf("cannot unmarshal <array> into non-slice", v)
            ELSE arrayLoop(data, v, ro)
      [] tag = sString  -> caseString(data, v, ro)
      [] tag = sInteger -> caseInteger(data, v, ro)
      [] tag = sReal    -> caseReal(data, v, ro)
      [] tag = sDate    -> caseDate(data, v, ro)
      [] tag = sData    -> caseData(data, v, ro)
      [] tag = sTrue    -> Set(data, v, BoolVal(TRUE), ro)
      [] tag = sFalse   -> Set(data, v, BoolVal(FALSE), ro)
      [] OTHER          -> Errorf("unexpected tag", v)

(* Lines 61-66: a pointer is followed, a nil one allocated first; what is  *)
(* decoded into the pointed-to value is then what the pointer points to.   *)
PointTo(p, x) == [p EXCEPT !.items = << x >>]
Indirect(v) == IF Kind(v.type) # "ptr" THEN v
               ELSE IF IsNil(v) THEN Zero(Elem(v.type)) ELSE v.items[1]
Behind(v, r) == IF Kind(v.type) # "ptr" THEN r ELSE [r EXCEPT !.v = PointTo(v, r.v)]

(* Lines 56-68: t is the scan of the value's first token. *)
unmarshalTag(t, v, ro) ==
    IF t.tag = << >> THEN Errorf("unexpected end of data", v)
    ELSE IF Kind(v.type) = "ptr" /\ IsNil(v) /\ ro THEN Panic(v)
    ELSE Behind(v, switchTag(t.tag, t.rest, Indirect(v), ro))

unmarshalValue(data, v, ro) == unmarshalTag(next(data), v, ro)

(***************************************************************************)
(* The first loop of Unmarshal: skip <?xml and <!DOCTYPE tokens, then      *)
(* require a token that starts with <plist.                                *)
(***************************************************************************)
RECURSIVE scanRoot(_)

(* scanRoot with the root test cut short to the two bytes "<p". *)
scanRootShortPrefix(data) ==
    LET t == next(data) IN
    IF HasPrefix(t.tag, sXml) \/ HasPrefix(t.tag, sDoctype) THEN scanRoot(t.rest)
    ELSE IF ~HasPrefix(t.tag, SubSeq(sPlist, 1, 2)) THEN [rest |-> << >>, err |-> "not a plist"]
    ELSE [rest |-> t.rest, err |-> ""]

scanRoot(data) ==
    LET t == next(data) IN
    IF HasPrefix(t.tag, sXml) \/ HasPrefix(t.tag, sDoctype) THEN scanRoot(t.rest)
    ELSE IF ~HasPrefix(t.tag, sPlist) THEN [rest |-> << >>, err |-> "not a plist"]
    ELSE [rest |-> t.rest, err |-> ""]

(***************************************************************************)
(* Documents.  A document of the model is written from a tree: a scalar    *)
(* with its body, <true/>, <false/>, an <array> of trees, a <dict> of keys *)
(* and trees, or a tag the decoder does not know.                          *)
(***************************************************************************)
Tree(tag, body, keys, kids) == [tag |-> tag, body |-> body, keys |-> keys, kids |-> kids]
Scalar(tag, body) == Tree(tag, body, << >>, << >>)
TrueTree == Scalar("true", << >>)
FalseTree == Scalar("false", << >>)
ArrayTree(kids) == Tree("array", << >>, << >>, kids)
DictTree(keys, kids) == Tree("dict", << >>, keys, kids)

OpenTag(tag) ==
    CASE tag = "string" -> sString [] tag = "integer" -> sInteger
      [] tag = "real" -> sReal     [] tag = "date" -> sDate
      [] tag = "data" -> sData     [] tag = "array" -> sArray
      [] tag = "dict" -> sDict     [] OTHER -> <<"<","u","i","d",">">>

CloseTag(tag) ==
    CASE tag = "string" -> sStringEnd [] tag = "integer" -> sIntegerEnd
      [] tag = "real" -> sRealEnd     [] tag = "date" -> sDateEnd
      [] tag = "data" -> sDataEnd     [] tag = "array" -> sArrayEnd
      [] tag = "dict" -> sDictEnd     [] OTHER -> <<"<","/","u","i","d",">">>

RECURSIVE Render(_)
RECURSIVE RenderKids(_, _)
RenderKids(t, i) ==
    IF i > Len(t.kids) THEN << >>
    ELSE (IF t.tag = "dict" THEN sKey \o t.keys[i] \o sKeyEnd ELSE << >>)
         \o Render(t.kids[i]) \o RenderKids(t, i + 1)

Render(t) ==
    CASE t.tag = "true"  -> sTrue
      [] t.tag = "false" -> sFalse
      [] OTHER -> OpenTag(t.tag) \o t.body \o RenderKids(t, 1) \o CloseTag(t.tag)

RECURSIVE Concat(_)
Concat(pieces) == IF pieces = << >> THEN << >> ELSE Head(pieces) \o Concat(Tail(pieces))

SeqsUpTo(S, n) == UNION {[1..k -> S] : k \in 0..n}

(***************************************************************************)
(* The inputs of the model.                                                *)
(***************************************************************************)
bS == <<"s">>
bT == <<"t">>
b7 == <<"7">>
bNeg == <<"-","3">>
bX == <<"x">>
bBig == <<"1","6","7","7","7","2","1","7">>
bDate == <<"1","8","0","9","-","0","2","-","1","2","T","0","9",":","1","8",":","0","0","Z">>
bBadDate == <<"1","8","0","9","-","0","2","-","3","0","T","0","9",":","1","8",":","0","0","Z">>
bData == <<"Q","U","I","=">>
bBadData == <<"Q">>

kZ == <<"Z">>
kEmpty == << >>

tString(b) == Scalar("string", b)
tInteger(b) == Scalar("integer", b)
tReal(b) == Scalar("real", b)

Leaves == { tString(bS), tInteger(b7), tInteger(bNeg), tInteger(bX), tReal(bBig), tReal(bX),
            Scalar("date", bDate), Scalar("date", bBadDate),
            Scalar("data", bData), Scalar("data", bBadData),
            TrueTree, FalseTree, Scalar("uid", b7) }

ExcludeDicts == { DictTree(<< kText >>, << tString(bS) >>),
                  DictTree(<< kType >>, << tInteger(b7) >>) }
PresidentDicts == { DictTree(<< kName >>, << tString(bS) >>),
                    DictTree(<< kAssassinated >>, << TrueTree >>) }

Elems == { tInteger(b7), tReal(bBig), tString(bS), TrueTree } \cup ExcludeDicts
Arrays == { ArrayTree(kids) : kids \in SeqsUpTo(Elems, MaxElems) }

Keys == { kName, kScores, kLincoln, kZ }
DictVals == { tString(bS), tString(bT), TrueTree, ArrayTree(<< tInteger(b7) >>) }
            \cup PresidentDicts
Pairs == ({kName} \X {tString(bS), tString(bT), TrueTree})
         \cup ({kScores} \X {tString(bS), TrueTree, ArrayTree(<< tInteger(b7) >>)})
         \cup ({kLincoln} \X (PresidentDicts \cup {tString(bS)}))
         \cup ({kZ} \X {tString(bS), TrueTree, ArrayTree(<< tInteger(b7) >>)})
Dicts == { DictTree([i \in DOMAIN ps |-> ps[i][1]], [i \in DOMAIN ps |-> ps[i][2]]) :
             ps \in SeqsUpTo(Pairs, MaxPairs) }
SingleDicts == { DictTree(<< k >>, << kid >>) :
                   k \in Keys \cup {kEmpty, kType, nType},
                   kid \in DictVals \cup {tInteger(b7)} }

(* Destinations: the caller passes a non-nil *T; dest is what it points to. *)
DestTypes == {p[2] : p \in Pointers} \ {"time.Location"}

SeededScores == [Zero("[]interface{}") EXCEPT
                    !.items = << Stored(Zero("interface{}"), IntVal(1)) >>]
SeededPresident == [Zero("President") EXCEPT
                       !.items[2] = StringVal(<<"o">>),
                       !.items[3] = BoolVal(TRUE),
                       !.items[4] = SeededScores]

Seeded == { StringVal(<<"o">>),
            [Zero("[]string") EXCEPT !.items = << StringVal(<<"o">>) >>],
            SeededScores,
            SeededPresident }

Dests == {Zero(t) : t \in DestTypes} \cup Seeded
StructDests == {Zero("President"), SeededPresident, Zero("PresTest"), Zero("struct{}")}

(* The envelope: what precedes the value, and what follows it. *)
pXml == sXml \o <<"?",">">>
pDoctype == sDoctype \o <<" ","p",">">>
pNewline == <<"\n">>
pPlist == sPlist \o <<">">>
pPlistVersion == sPlist \o <<" ","v","=","1",">">>
pPlists == sPlist \o <<"s",">">>
pPlis == <<"<","p","l","i","s",">">>
pJunk == <<"<","x",">">>
pPlistEndSpace == <<"<","/","p","l","i","s","t"," ",">">>

PrePieces == { pXml, pDoctype, pJunk }
Roots == { pPlist, pPlistVersion, pPlists, pPlis, sPlistEnd, << >> }
PostPieces == { sPlistEnd, pNewline, pJunk, pPlistEndSpace }
Tails == { << >>, sDictEnd, sKey \o kName \o sKeyEnd \o Render(tString(bS)) \o sDictEnd,
           sArrayEnd \o sPlistEnd }

NoCut == 0 - 1

Input(mode, pre, root, tree, post, cut, v0) ==
    [mode |-> mode, pre |-> pre, root |-> root, tree |-> tree, post |-> post,
     cut |-> cut, v0 |-> v0]

Plain(tree, v0) == Input("Unmarshal", << >>, pPlist, tree, << sPlistEnd >>, NoCut, v0)

Whole(in) == IF in.mode = "Unmarshal"
             THEN Concat(in.pre) \o in.root \o Render(in.tree) \o Concat(in.post)
             ELSE Render(in.tree) \o Concat(in.post)

Bytes(in) == IF in.cut = NoCut THEN Whole(in) ELSE SubSeq(Whole(in), 1, in.cut)

TopTrees == Leaves \cup Arrays \cup
            { DictTree(<< >>, << >>), DictTree(<< kName >>, << tString(bS) >>) }
CutTree == DictTree(<< kName, kScores, kZ >>,
                    << tString(bS), ArrayTree(<< tInteger(b7) >>), Scalar("data", bData) >>)

Enveloped == { << tString(bS), StringVal(<<"o">>) >>,
               << DictTree(<< kName >>, << tString(bS) >>), SeededPresident >> }

Inputs ==
    { Input("Unmarshal", pre, root, e[1], << sPlistEnd >>, NoCut, e[2]) :
         pre \in SeqsUpTo(PrePieces, MaxBefore), root \in Roots, e \in Enveloped }
    \cup { Input("Unmarshal", pre, root, e[1], post, NoCut, e[2]) :
             pre \in {<< >>, << pXml, pDoctype >>}, root \in {pPlist, pPlistVersion},
             post \in SeqsUpTo(PostPieces, MaxAfter), e \in Enveloped }
    \cup { Plain(tree, v0) : tree \in TopTrees, v0 \in Dests }
    \cup { Plain(tree, v0) : tree \in Dicts, v0 \in StructDests }
    \cup { Plain(tree, v0) : tree \in SingleDicts,
                              v0 \in StructDests \cup {Zero("Shadow"), Zero("Exclude2")} }
    \cup { Input("Unmarshal", << >>, pPlist, CutTree, << sPlistEnd >>, cut, SeededPresident) :
             cut \in 0..Len(pPlist \o Render(CutTree)) }
    \cup { Input("skipValue", << >>, << >>, tree, << tail >>, NoCut, Zero("struct{}")) :
             tree \in Leaves \cup Arrays \cup SingleDicts, tail \in Tails }

(***************************************************************************)
(* The state: input is what the caller passed; pc is the function about to *)
(* run, or "return" or "panic" once the call is over; data is the local    *)
(* variable data of the running function; dest is the value the caller's   *)
(* pointer points to; err is the error returned ("" while none, and for    *)
(* nil).                                                                   *)
(***************************************************************************)
VARIABLES input, pc, data, dest, err
vars == << input, pc, data, dest, err >>

Init ==
    /\ input \in Inputs
    /\ pc = input.mode
    /\ data = Bytes(input)
    /\ dest = input.v0
    /\ err = ""

PtrName(t) == (CHOOSE p \in Pointers : p[2] = t)[1]
ValueOf(v) == Val(PtrName(v.type), << >>, 0, << >>, << v >>)

(* Unmarshal, lines 30-42: find the root token. *)
UnmarshalRoot ==
    /\ pc = "Unmarshal"
    /\ LET r == scanRoot(data) IN
       /\ data' = r.rest
       /\ err' = r.err
       /\ pc' = IF r.err # "" THEN "return" ELSE "unmarshalValue"
    /\ UNCHANGED << input, dest >>

(* Unmarshal, lines 44-47: decode the one value into the destination. *)
UnmarshalTop ==
    /\ pc = "unmarshalValue"
    /\ LET r == unmarshalValue(data, ValueOf(dest), FALSE) IN
       /\ dest' = r.v.items[1]
       /\ data' = r.rest
       /\ err' = r.err
       /\ pc' = IF r.panic THEN "panic" ELSE IF r.err # "" THEN "return" ELSE "trailer"
    /\ UNCHANGED input

(* UnmarshalTrailer comparing only the start of the token with </plist. *)
UnmarshalTrailerPrefix ==
    /\ pc = "trailer"
    /\ LET t == next(data) IN
       /\ data' = t.rest
       /\ err' = IF ~HasPrefix(t.tag, SubSeq(sPlistEnd, 1, 7))
                 THEN "junk on end of plist" ELSE ""
    /\ pc' = "return"
    /\ UNCHANGED << input, dest >>

(* Unmarshal, lines 48-52: the token after the value. *)
UnmarshalTrailer ==
    /\ pc = "trailer"
    /\ LET t == next(data) IN
       /\ data' = t.rest
       /\ err' = IF t.tag # sPlistEnd THEN "junk on end of plist" ELSE ""
    /\ pc' = "return"
    /\ UNCHANGED << input, dest >>

(* skipValue called on its own. *)
SkipValue ==
    /\ pc = "skipValue"
    /\ LET r == skipValue(data) IN
       /\ data' = r.rest
       /\ err' = r.err
    /\ pc' = "return"
    /\ UNCHANGED << input, dest >>

Next == UnmarshalRoot \/ UnmarshalTop \/ UnmarshalTrailer \/ SkipValue

Spec == Init /\ [][Next]_vars

(***************************************************************************)
(* Unmarshal as a function of its arguments: how the call ends, the error  *)
(* it returns and the destination it leaves.  The three actions above are  *)
(* its steps.                                                              *)
(***************************************************************************)
Outcome(how, e, v) == [pc |-> how, err |-> e, dest |-> v]

Unmarshal(bytes, v0) ==
    LET r == scanRoot(bytes) IN
    IF r.err # "" THEN Outcome("return", r.err, v0)
    ELSE LET u == unmarshalValue(r.rest, ValueOf(v0), FALSE) IN
         IF u.panic THEN Outcome("panic", "", u.v.items[1])
         ELSE IF u.err # "" THEN Outcome("return", u.err, u.v.items[1])
         ELSE Outcome("return",
                      IF next(u.rest).tag # sPlistEnd THEN "junk on end of plist" ELSE "",
                      u.v.items[1])

(***************************************************************************)
(* Vocabulary of the properties.                                           *)
(***************************************************************************)
Over == pc \in {"return", "panic"}
Returned == pc = "return"
InUnmarshal == input.mode = "Unmarshal"
IsPlain == InUnmarshal /\ input = Plain(input.tree, input.v0)
T == input.v0.type
DictMismatch == "cannot unmarshal <dict> into non-struct"
ArrayMismatch == "cannot unmarshal <array> into non-slice"

StepsAgree ==
    InUnmarshal /\ Over => Outcome(pc, err, dest) = Unmarshal(Bytes(input), input.v0)

(* The pieces of the envelope, read as tokens. *)
IsToken(piece) == piece # << >> /\ piece[1] = "<"
IsDeclaration(piece) == piece \in {pXml, pDoctype}
BeginsPlist(piece) == piece \in {pPlist, pPlistVersion, pPlists}
Tokens(pieces) == SelectSeq(pieces, IsToken)
NotDeclaration(piece) == ~IsDeclaration(piece)
Leading(in) == SelectSeq(Tokens(in.pre \o << in.root >>), NotDeclaration)

(* The first token that is not a declaration does not begin with <plist:   *)
(* it is among the pieces before the value, or it is the value's own first *)
(* token, or the input was cut before any token was complete.              *)
NoRoot(in) ==
    /\ in.mode = "Unmarshal"
    /\ IF in.cut # NoCut THEN in.cut < Len(in.root)
       ELSE Leading(in) = << >> \/ ~BeginsPlist(Leading(in)[1])

(* C3: when the first token that is neither an <?xml nor a <!DOCTYPE token *)
(* does not begin with <plist, or there is no token, Unmarshal returns the *)
(* error "not a plist", unmarshalValue is never reached and the            *)
(* destination keeps the value the caller gave it.                         *)
C3_NoRootNoDecode ==
    NoRoot(input) =>
        /\ pc \in {"Unmarshal", "return"}
        /\ dest = input.v0
        /\ Returned => err = "not a plist"

C3_Witness ==
    /\ NoRoot(input) /\ Returned
    /\ input.pre = << pXml, pDoctype >> /\ input.root = pPlis
    /\ input.v0 = SeededPresident /\ dest = SeededPresident

(* The next token of data is exactly </plist>: the first "<" of data       *)
(* starts the eight bytes of </plist>.                                     *)
StartsWithPlistEnd(d) ==
    \E i \in 1..Len(d) :
        /\ d[i] = "<"
        /\ \A k \in 1..(i - 1) : d[k] # "<"
        /\ i + 7 <= Len(d)
        /\ \A k \in 1..8 : d[i + k - 1] = sPlistEnd[k]

(* What follows the value in the input: its tokens. *)
After(in) == Tokens(in.post)

(* C2 as claimed: Unmarshal returns nil only when the value is followed by *)
(* </plist> and by nothing after it.                                       *)
C2_NothingAfterPlistEnd ==
    InUnmarshal /\ Returned /\ err = "" /\ input.cut = NoCut
        => After(input) = << sPlistEnd >> /\ input.post[Len(input.post)] = sPlistEnd

(* C2: once the top-level value is decoded, Unmarshal returns nil exactly  *)
(* when the next token of what the value decoder left is </plist>, and     *)
(* "junk on end of plist" otherwise; nothing after that token is read.     *)
C2_TrailerIsPlistEnd ==
    [][pc = "trailer" =>
          /\ pc' = "return"
          /\ dest' = dest
          /\ (err' = "") <=> StartsWithPlistEnd(data)
          /\ err' \in {"", "junk on end of plist"}]_vars

C2_Witness ==
    /\ InUnmarshal /\ Returned /\ err = ""
    /\ input.post = << sPlistEnd, pJunk >>
    /\ input.tree = tString(bS) /\ dest = StringVal(bS)

(* C4 as claimed: a <dict> is refused exactly by destinations that are     *)
(* neither struct nor interface{}, an <array> exactly by those that are    *)
(* neither slice nor interface{}.                                          *)
C4_DynamicAccepted ==
    IsPlain /\ Over =>
        /\ input.tree.tag = "dict" =>
              (err = DictMismatch <=> Kind(T) \notin {"struct", "interface"})
        /\ input.tree.tag = "array" =>
              (err = ArrayMismatch <=> Kind(T) \notin {"slice", "interface"})

(* No <dict> (no <array>) among the values directly inside or one level    *)
(* further down.                                                           *)
Free(tree, tag) ==
    \A i \in 1..Len(tree.kids) :
        /\ tree.kids[i].tag # tag
        /\ \A j \in 1..Len(tree.kids[i].kids) : tree.kids[i].kids[j].tag # tag

(* The kind a nested value is decoded into: the element's, through one     *)
(* pointer.                                                                *)
Through(t) == IF Kind(t) = "ptr" THEN Kind(Elem(t)) ELSE Kind(t)

(* C4: a <dict> is refused with the type-mismatch error exactly when the   *)
(* destination, taken through one pointer, is not a struct, and an <array> *)
(* exactly when it is not a slice; an interface{} destination is refused   *)
(* like any other non-struct or non-slice, at the top and as the element   *)
(* of a slice, and the refusal leaves the destination as it was.           *)
C4_MismatchExactly ==
    IsPlain /\ Over =>
        /\ input.tree.tag = "dict" /\ Kind(T) # "struct" =>
              pc = "return" /\ err = DictMismatch /\ dest = input.v0
        /\ input.tree.tag = "dict" /\ Kind(T) = "struct" /\ Free(input.tree, "dict") =>
              err # DictMismatch
        /\ input.tree.tag = "array" /\ Kind(T) # "slice" =>
              pc = "return" /\ err = ArrayMismatch /\ dest = input.v0
        /\ input.tree.tag = "array" /\ Kind(T) = "slice" =>
              /\ err # ArrayMismatch
              /\ input.tree.kids # << >> /\ input.tree.kids[1].tag = "dict" =>
                    (err = DictMismatch <=> Through(Elem(T)) # "struct")

C4_Witness ==
    /\ IsPlain /\ Returned
    /\ input.tree = DictTree(<< kName >>, << tString(bS) >>)
    /\ T = "interface{}" /\ err = DictMismatch

C4_WitnessArray ==
    /\ IsPlain /\ Returned
    /\ input.tree = ArrayTree(<< tInteger(b7) >>)
    /\ T = "interface{}" /\ err = ArrayMismatch

(***************************************************************************)
(* What a value of the document is as a Go value: the number a decimal     *)
(* body writes, and the value a slot holds once the tree is decoded into   *)
(* it.  An interface{} or a pointer is looked through.                     *)
(***************************************************************************)
Number(body) == CASE body = b7 -> 7 [] body = bNeg -> 0 - 3 [] body = bBig -> 16777217

Unbox(x) == IF Kind(x.type) \in {"interface", "ptr"} /\ ~IsNil(x) THEN x.items[1] ELSE x

HoldsScalar(x, tree) ==
    CASE tree.tag = "integer" -> x.type = "int" /\ x.num = Number(tree.body)
      [] tree.tag = "real"    -> x.type = "float64" /\ x.num = Number(tree.body)
      [] tree.tag = "string"  -> x.type = "string" /\ x.str = tree.body
      [] tree.tag = "true"    -> x.type = "bool" /\ x.num = 1
      [] tree.tag = "false"   -> x.type = "bool" /\ x.num = 0
      [] OTHER -> FALSE

(* The field a key binds by the rule of the data model: the first whose    *)
(* declared name is the key, or that has an override name and it is the    *)
(* key.                                                                    *)
Binds(f, key) == f.Name = key \/ (f.Tag # << >> /\ f.Tag = key)
Bound(t, key) ==
    LET fs == Types[t].fields IN
    IF \E i \in 1..Len(fs) : Binds(fs[i], key)
    THEN CHOOSE i \in 1..Len(fs) : Binds(fs[i], key) /\ \A k \in 1..(i-1) : ~Binds(fs[k], key)
    ELSE 0

Holds(x, tree) ==
    IF tree.tag = "dict"
    THEN /\ Kind(x.type) = "struct"
         /\ \A j \in 1..Len(tree.keys) :
               /\ Bound(x.type, tree.keys[j]) # 0
               /\ HoldsScalar(x.items[Bound(x.type, tree.keys[j])], tree.kids[j])
    ELSE HoldsScalar(x, tree)

(* C7: an <array> decoded into a slice appends one element per value, in   *)
(* the order of the document, after the elements the slice already held;   *)
(* each element has the slice's element type, and in a []interface{} each  *)
(* keeps the kind of its own tag, an <integer> an int and a <real> a       *)
(* float64 of full precision.  A decode that stops at a value has appended *)
(* the values before it.                                                   *)
C7_ArrayAppendsInOrder ==
    IsPlain /\ Over /\ input.tree.tag = "array" /\ Kind(T) = "slice" =>
        LET kids == input.tree.kids
            n0 == Len(input.v0.items)
            n == Len(dest.items) - n0
        IN /\ n \in 0..Len(kids)
           /\ SubSeq(dest.items, 1, n0) = input.v0.items
           /\ \A i \in 1..n :
                 /\ dest.items[n0 + i].type = Elem(T)
                 /\ Holds(Unbox(dest.items[n0 + i]), kids[i])
           /\ (Returned /\ err = "") <=> n = Len(kids)

C7_Witness ==
    /\ IsPlain /\ Returned /\ err = ""
    /\ input.tree = ArrayTree(<< tInteger(b7), tReal(bBig) >>)
    /\ input.v0 = SeededScores
    /\ Len(dest.items) = 3
    /\ dest.items[3].items[1] = Float64Val(16777217)

(***************************************************************************)
(* A <dict> that writes one key twice.                                     *)
(***************************************************************************)
Twice == /\ IsPlain /\ Returned /\ err = ""
         /\ input.tree.tag = "dict" /\ Kind(T) = "struct"
         /\ Len(input.tree.keys) = 2
         /\ input.tree.keys[1] = input.tree.keys[2]
         /\ FieldIndex(T, input.tree.keys[2]) # 0

Only(kid) == Plain(DictTree(<< input.tree.keys[2] >>, << kid >>), input.v0)
Slot == FieldIndex(T, input.tree.keys[2])
IsScalar(tree) == tree.tag \notin {"dict", "array"}

(* C5 as claimed: the slot of a key written twice is what the last         *)
(* occurrence alone would have made it.                                    *)
C5_LastWinsEveryShape ==
    Twice => dest = Unmarshal(Bytes(Only(input.tree.kids[2])), input.v0).dest

(* C5: of a key written twice, a scalar slot holds the value of the last   *)
(* occurrence alone; a slice slot holds what it held before, then the      *)
(* elements of the first occurrence, then those of the second; a struct    *)
(* slot holds the fields the second occurrence wrote, of the others those  *)
(* the first wrote, and the rest as before.  No other slot changes.        *)
C5_LastWinsScalarsOnly ==
    Twice =>
        LET a == input.tree.kids[1]
            b == input.tree.kids[2]
            was == input.v0.items[Slot]
            now == dest.items[Slot]
        IN /\ \A i \in 1..NumField(T) : i # Slot => dest.items[i] = input.v0.items[i]
           /\ IsScalar(b) =>
                 /\ Holds(now, b)
                 /\ dest = Unmarshal(Bytes(Only(b)), input.v0).dest
           /\ a.tag = "array" /\ b.tag = "array" =>
                 /\ Len(now.items) = Len(was.items) + Len(a.kids) + Len(b.kids)
                 /\ SubSeq(now.items, 1, Len(was.items)) = was.items
                 /\ \A i \in 1..Len(a.kids) :
                       Holds(Unbox(now.items[Len(was.items) + i]), a.kids[i])
                 /\ \A i \in 1..Len(b.kids) :
                       Holds(Unbox(now.items[Len(was.items) + Len(a.kids) + i]), b.kids[i])
           /\ a.tag = "dict" /\ b.tag = "dict" =>
                 /\ \A k \in 1..Len(b.keys) :
                       Bound(now.type, b.keys[k]) # 0 =>
                           HoldsScalar(now.items[Bound(now.type, b.keys[k])], b.kids[k])
                 /\ \A j \in 1..Len(a.keys) :
                       /\ Bound(now.type, a.keys[j]) # 0
                       /\ \A k \in 1..Len(b.keys) : b.keys[k] # a.keys[j]
                       => HoldsScalar(now.items[Bound(now.type, a.keys[j])], a.kids[j])
                 /\ \A i \in 1..NumField(now.type) :
                       (\A j \in 1..Len(a.keys) : Bound(now.type, a.keys[j]) # i)
                       /\ (\A k \in 1..Len(b.keys) : Bound(now.type, b.keys[k]) # i)
                       => now.items[i] = was.items[i]

C5_Witness ==
    /\ Twice /\ input.v0 = SeededPresident
    /\ input.tree.keys = << kScores, kScores >>
    /\ input.tree.kids = << ArrayTree(<< tInteger(b7) >>), ArrayTree(<< tInteger(b7) >>) >>
    /\ Len(dest.items[4].items) = 3

C5_WitnessScalar ==
    /\ Twice /\ input.v0 = SeededPresident
    /\ input.tree.keys = << kName, kName >>
    /\ input.tree.kids = << tString(bS), tString(bT) >>
    /\ dest.items[2] = StringVal(bT)

C5_WitnessStruct ==
    /\ Twice /\ input.v0 = Zero("PresTest")
    /\ input.tree.keys = << kLincoln, kLincoln >>
    /\ input.tree.kids = << DictTree(<< kName >>, << tString(bS) >>),
                            DictTree(<< kAssassinated >>, << TrueTree >>) >>
    /\ dest.items[1].items[2] = StringVal(bS)
    /\ dest.items[1].items[3] = BoolVal(TRUE)

(***************************************************************************)
(* Claims the code does not meet.                                          *)
(***************************************************************************)

(* C8: every call of Unmarshal ends by returning nil or one error; none    *)
(* ends in a panic.                                                        *)
C8_NeverPanics == InUnmarshal => pc # "panic"

(* C6: a <real> with a numeric body decoded into a float32 destination     *)
(* succeeds and stores the body at 32-bit precision; into a float64 or an  *)
(* interface{} destination it succeeds and stores it at 64-bit precision.  *)
C6_RealByWidth ==
    IsPlain /\ Over /\ input.tree = tReal(bBig) /\ T \in {"float32", "float64", "interface{}"} =>
        /\ Returned /\ err = ""
        /\ Unbox(dest).num = IF T = "float32" THEN 16777216 ELSE 16777217

(* C9: skipValue, started at a well-formed value, returns nil and the      *)
(* input that follows that value.                                          *)
C9_SkipsExactlyOneValue ==
    input.mode = "skipValue" /\ Returned => err = "" /\ data = Concat(input.post)

(* The document without the pairs of the key Z, which no destination of    *)
(* the model declares.                                                     *)
Known(tree) == { i \in 1..Len(tree.keys) : tree.keys[i] # kZ }
RECURSIVE Ascending(_)
Ascending(S) == IF S = {} THEN << >>
                ELSE LET m == CHOOSE x \in S : \A y \in S : x <= y
                     IN << m >> \o Ascending(S \ {m})
Strip(tree) == LET keep == Ascending(Known(tree)) IN
               DictTree([i \in DOMAIN keep |-> tree.keys[keep[i]]],
                        [i \in DOMAIN keep |-> tree.kids[keep[i]]])

(* C1: decoding a <dict> into a struct ends as decoding the same <dict>    *)
(* without its unknown pairs ends: same return, same error, same           *)
(* destination; into a struct without fields it returns nil.               *)
C1_UnknownKeysIgnored ==
    IsPlain /\ Over /\ input.tree.tag = "dict" /\ Kind(T) = "struct" =>
        /\ Outcome(pc, err, dest) = Unmarshal(Bytes(Plain(Strip(input.tree), input.v0)), input.v0)
        /\ T = "struct{}" => Returned /\ err = ""

(* C10: a key binds the first field whose declared or override name it     *)
(* is, and the value goes there; a key that is no field's declared or      *)
(* override name binds nothing: its value is skipped, the destination is   *)
(* as before and Unmarshal returns nil.                                    *)
C10_KeyBindsByName ==
    /\ IsPlain /\ Over /\ Kind(T) = "struct"
    /\ input.tree.tag = "dict" /\ Len(input.tree.keys) = 1
    /\ input.tree.kids[1] = tString(bS)
    => LET i == Bound(T, input.tree.keys[1]) IN
       IF i = 0 THEN Returned /\ err = "" /\ dest = input.v0
       ELSE Types[T].fields[i].Type = "string" =>
               Returned /\ err = "" /\ dest = [input.v0 EXCEPT !.items[i] = StringVal(bS)]

====
